---- MODULE Spec2Model ----
(***************************************************************************)
(* A model of the gen parser-generator toolkit.                            *)
(*                                                                         *)
(*   package lr : Grammar.CollectSymbols / First / Follow, ItemSet.Closure *)
(*                / Goto, ComputeActions, writeTables                      *)
(*   package lex: symM.add, writeSwitch / writeMachine (the recognizer)    *)
(*                                                                         *)
(* Go maps are iterated in an order the runtime chooses; every `range`     *)
(* over a map is modelled as a nondeterministic choice of the next member. *)
(***************************************************************************)
EXTENDS Integers, Sequences, FiniteSets, TLC

\* ------------------------------------------------------------------------
\* Bounds
\* ------------------------------------------------------------------------

\* Largest total number of pattern symbols of a grammar enumerated for First
\* and Follow.
MaxSyms == 4

\* Largest total number of pattern symbols of a grammar enumerated for
\* ComputeActions.
MaxSymsLR == 3

\* Largest number of tokens, before the closing $, of an input of the parser.
MaxInput == 3

\* Largest number of Symbol tokens of a token file.
MaxTokens == 2

\* Largest number of bytes of a Symbol literal.
MaxLit == 3

\* Largest number of bytes of an input of the recognizer.
MaxLexInput == 3

\* Largest total number of pattern symbols of a grammar enumerated for
\* Closure run on its own.
MaxSymsClosure == 2

\* Largest number of bytes of a pattern string.
MaxPattern == 4

\* Largest number of positional arguments of a run.
MaxArgs == 2

\* Largest total number of pattern symbols of a grammar enumerated for the
\* runs checked to their end.
MaxSymsTerm == 2

\* Largest number of items of a set Closure is called on.
MaxKernel == 2

\* ------------------------------------------------------------------------
\* Symbols, rules, grammars
\* ------------------------------------------------------------------------

None == "<none>"

\* No emitted text, and no previous run.
NoText == [rules |-> << >>, actions |-> << >>]

NoPrev == [table |-> << >>, text |-> NoText]

\* An Item: a rule (its number) and the position of the dot.
MkItem(r, p) == [rule |-> r, pos |-> p]

\* No item: the reduce loop is not inside a range over a follow set.
NoItem == MkItem(-1, -1)

\* The end-of-input pseudo terminal: init.Add("$").
EOF == "$"

\* Symbols the enumerated grammars are written with.
FamilySyms == {"S", "A", "x"}

\* Symbols that head a rule in the enumerated grammars.
FamilyHeads == {"S", "A"}

\* A Rule; typ, vars and code are opaque to the table construction.
MkRule(sym, pat) == [symbol |-> sym, pattern |-> pat]

RulesOfSize(n) == {MkRule(l, p) : l \in FamilyHeads, p \in [1..n -> FamilySyms]}

RECURSIVE RuleLists(_)
RuleLists(n) ==
    {<< >>} \cup
    UNION {{<<r>> \o g : r \in RulesOfSize(k), g \in RuleLists(n - k)} : k \in 1..n}

\* Grammars of at most MaxSyms pattern symbols; the start symbol is named S.
FamilyGrammars(n) == {g \in RuleLists(n) : g # << >> /\ g[1].symbol = "S"}

\* The grammars of the documented scenarios.
ArithGrammar ==
    << MkRule("expr", <<"expr", "+", "num">>),
       MkRule("expr", <<"num">>),
       MkRule("num", <<"digit">>) >>

AmbigGrammar ==
    << MkRule("s", <<"a">>), MkRule("s", <<"b">>),
       MkRule("a", <<"x">>), MkRule("b", <<"x">>) >>

ListGrammar ==
    << MkRule("list", <<"list", "item">>), MkRule("list", <<"item">>) >>

SingleGrammar == << MkRule("start", <<"t">>) >>

\* A grammar that writes `$` in a pattern.
DollarGrammar == << MkRule("S", <<"A", "$">>), MkRule("A", <<"x">>) >>

\* A chain of three nonterminals: first needs more than one pass.
ChainGrammar ==
    << MkRule("s", <<"a", "x">>), MkRule("a", <<"b">>), MkRule("b", <<"t">>) >>

ScenarioGrammars ==
    {ArithGrammar, AmbigGrammar, ListGrammar, SingleGrammar, DollarGrammar,
     ChainGrammar}

Range(f) == {f[k] : k \in DOMAIN f}

\* ------------------------------------------------------------------------
\* State
\* ------------------------------------------------------------------------

VARIABLES
    pc,            \* position in the program
    rules,         \* Grammar.rules
    symbols,       \* Grammar.symbols
    terminals,     \* Grammar.terminals
    nonterminals,  \* Grammar.nonterminals
    first,         \* the SymbolMap built by First
    follow,        \* the SymbolMap built by Follow
    changed,       \* the `changed` flag of the running fixpoint loop
    keysLeft,      \* First: keys of `first` the current pass has yet to visit
    cur,           \* First: key whose set is being ranged over, or None
    must,          \* First: members of that set when its range began
    visited,       \* First: members of that set the range has produced
    states,        \* ComputeActions: the list of item sets
    allActions,    \* ComputeActions: the ActionTable
    idx,           \* ComputeActions: the loop index i, a state's number
    todo,          \* range grammar.symbols: symbols yet to be produced
    itemsLeft,     \* range set: items yet to be produced
    curItem,       \* the end-item whose follow set is ranged over, or NoItem
    termsLeft,     \* range f: terminals yet to be produced
    diags,         \* the conflict diagnostics written to traceLog
    out,           \* the text writeTables emitted, or NoText
    prev,          \* table and text of the previous run, or NoPrev
    input,         \* parser: the token stream
    ipos,          \* parser: number of tokens consumed
    stack,         \* parser: state stack
    reduced,       \* parser: left-hand sides of the reductions made
    result,        \* parser: "accept", "error", or None while it runs
    tokens,        \* lexer generator: the tokens read from the token file
    sm,            \* lexer generator: the root symM
    lexInput,      \* recognizer: the bytes of the input
    lexPos,        \* recognizer: number of bytes the reader is past
    node,          \* recognizer: the symM whose switch is running
    top,           \* recognizer: whether that is the top switch
    lexResult,     \* recognizer: the TokenId returned
    itemSet0,      \* Closure: the item set it is called on
    itemSet,       \* Closure: the receiver `is`
    added,         \* Closure: the symbols with added[sym] set
    isChanged,     \* Closure: its `changed` flag
    isMust,        \* Closure: items of the set when the range began
    isSeen,        \* Closure: items the range has produced
    closed1,       \* Closure: the set a first call returned, or {}
    patternStr,    \* parsePattern: its argument
    pattern,       \* parsePattern: the pattern returned
    patVars,       \* parsePattern: the vars returned
    env,           \* main: the arguments and what the run meets
    exitStatus,    \* main: the exit status of the process, or -1
    stderrText,    \* main: what the run wrote to stderr
    written        \* main: whether output() wrote the generated text

gramVars == <<rules, symbols, terminals, nonterminals>>
firstVars == <<first, keysLeft, cur, must, visited>>
setsVars == <<pc, gramVars, firstVars, follow, changed>>

lrVars == <<states, allActions, idx, todo, itemsLeft, curItem, termsLeft, diags, out>>
parseVars == <<input, ipos, stack, reduced, result>>

lexVars == <<tokens, sm, lexInput, lexPos, node, top, lexResult>>

closureVars == <<itemSet0, itemSet, added, isChanged, isMust, isSeen, closed1>>
patternVars == <<patternStr, pattern, patVars>>
mainVars == <<env, exitStatus, stderrText, written>>
toolVars == <<closureVars, patternVars, mainVars>>

vars == <<setsVars, lrVars, prev, parseVars, lexVars, toolVars>>

\* ------------------------------------------------------------------------
\* SymbolSet / SymbolMap
\* ------------------------------------------------------------------------

\* m[s] of a Go map: the zero value (a nil set) when the key is absent.
Get(m, s) == IF s \in DOMAIN m THEN m[s] ELSE {}

\* m with m[s] = v.
Put(m, s, v) == [k \in DOMAIN m \cup {s} |-> IF k = s THEN v ELSE m[k]]

\* SymbolSet.Merge: the receiver after the merge.
Merge(ss, other) == ss \cup other

\* Grew that always answers true: Merge reports a change it did not make.
GrewAlways(ss, other) == TRUE

\* SymbolSet.Merge: its result, whether the receiver grew.
Grew(ss, other) == Cardinality(Merge(ss, other)) # Cardinality(ss)

\* ------------------------------------------------------------------------
\* Grammar.CollectSymbols
\* ------------------------------------------------------------------------

CollectNonterminals(g) == {g[k].symbol : k \in DOMAIN g}

CollectSymbolSet(g) ==
    CollectNonterminals(g) \cup UNION {Range(g[k].pattern) : k \in DOMAIN g}

CollectTerminals(g) ==
    {sym \in UNION {Range(g[k].pattern) : k \in DOMAIN g} :
        sym \notin CollectNonterminals(g)}

\* ------------------------------------------------------------------------
\* Grammar.First
\* ------------------------------------------------------------------------

\* "Fill with grammar's first outputs": the rules in order, each adding
\* pattern[0] to first[rule.symbol].
RECURSIVE FillFirst(_, _, _)
FillFirst(g, k, fm) ==
    IF k > Len(g) THEN fm
    ELSE FillFirst(g, k + 1,
                   Put(fm, g[k].symbol, Get(fm, g[k].symbol) \cup {g[k].pattern[1]}))

\* SeedFirst without the loop that makes terminals point to themselves.
SeedFirstNoTerminals(g) ==
    FillFirst(g, 1, << >>)

\* The map before the fixpoint loop: terminals point to themselves, then
\* the rules' first symbols.
SeedFirst(g) ==
    FillFirst(g, 1, [t \in CollectTerminals(g) |-> {t}])

\* g.CollectSymbols(trace) and the two initialisation loops.
FirstSeed ==
    /\ pc = "First"
    /\ symbols' = CollectSymbolSet(rules)
    /\ nonterminals' = CollectNonterminals(rules)
    /\ terminals' = CollectTerminals(rules)
    /\ first' = SeedFirst(rules)
    /\ changed' = TRUE
    /\ pc' = "firstLoop"
    /\ UNCHANGED <<rules, follow, keysLeft, cur, must, visited>>

\* for changed := true; changed; { changed = false; for _, set := range first
FirstPassBegin ==
    /\ pc = "firstLoop"
    /\ changed
    /\ changed' = FALSE
    /\ keysLeft' = DOMAIN first
    /\ pc' = "firstPass"
    /\ UNCHANGED <<gramVars, first, follow, cur, must, visited>>

\* The outer range produces the next key of first; the inner range begins.
FirstPickSet ==
    /\ pc = "firstPass"
    /\ cur = None
    /\ \E k \in keysLeft :
        /\ cur' = k
        /\ keysLeft' = keysLeft \ {k}
        /\ must' = first[k]
        /\ visited' = {}
    /\ UNCHANGED <<pc, gramVars, first, follow, changed>>

\* The inner range produces a member of the set: one it held when the range
\* began, or one merged into it since (Go may produce or skip those).
FirstVisit ==
    /\ pc = "firstPass"
    /\ cur # None
    /\ \E symbol \in first[cur] \ visited :
        /\ first' = [first EXCEPT ![cur] = Merge(first[cur], Get(first, symbol))]
        /\ changed' = (changed \/ Grew(first[cur], Get(first, symbol)))
        /\ visited' = visited \cup {symbol}
    /\ UNCHANGED <<pc, gramVars, follow, keysLeft, cur, must>>

\* The inner range ends: every member present at its start was produced.
FirstSetDone ==
    /\ pc = "firstPass"
    /\ cur # None
    /\ must \subseteq visited
    /\ cur' = None
    /\ must' = {}
    /\ visited' = {}
    /\ UNCHANGED <<pc, gramVars, first, follow, changed, keysLeft>>

\* The outer range ends; back to the loop condition.
FirstPassEnd ==
    /\ pc = "firstPass"
    /\ cur = None
    /\ keysLeft = {}
    /\ pc' = "firstLoop"
    /\ UNCHANGED <<gramVars, firstVars, follow, changed>>

\* return first
FirstReturn ==
    /\ pc = "firstLoop"
    /\ ~changed
    /\ pc' = "Follow"
    /\ UNCHANGED <<gramVars, firstVars, follow, changed>>

\* ------------------------------------------------------------------------
\* Grammar.Follow
\* ------------------------------------------------------------------------

\* FollowAt as first written (the commented-out set.Add(nextSym)): the next
\* symbol itself is added instead of its first set.
FollowAtAddNext(g, fst, k, i, st) ==
    LET fm == st[1]
        patSym == g[k].pattern[i]
        fm1 == IF patSym \in DOMAIN fm THEN fm ELSE Put(fm, patSym, {})
        other == IF i + 1 <= Len(g[k].pattern)
                 THEN {g[k].pattern[i + 1]}
                 ELSE Get(fm1, g[k].symbol)
    IN  << Put(fm1, patSym, Merge(fm1[patSym], other)),
           st[2] \/ Grew(fm1[patSym], other) >>

\* FollowAt with the else lost: follow[rule.symbol] is merged at every
\* position, not only the last.
FollowAtNoElse(g, fst, k, i, st) ==
    LET fm == st[1]
        patSym == g[k].pattern[i]
        fm1 == IF patSym \in DOMAIN fm THEN fm ELSE Put(fm, patSym, {})
        other == (IF i + 1 <= Len(g[k].pattern)
                  THEN Get(fst, g[k].pattern[i + 1]) ELSE {})
                 \cup Get(fm1, g[k].symbol)
    IN  << Put(fm1, patSym, Merge(fm1[patSym], other)),
           st[2] \/ Grew(fm1[patSym], other) >>

\* The body of the inner loop for rule g[k], position i, on the pair
\* <<follow map, changed>>.
FollowAt(g, fst, k, i, st) ==
    LET fm == st[1]
        patSym == g[k].pattern[i]
        fm1 == IF patSym \in DOMAIN fm THEN fm ELSE Put(fm, patSym, {})
        other == IF i + 1 <= Len(g[k].pattern)
                 THEN Get(fst, g[k].pattern[i + 1])
                 ELSE Get(fm1, g[k].symbol)
    IN  << Put(fm1, patSym, Merge(fm1[patSym], other)),
           st[2] \/ Grew(fm1[patSym], other) >>

RECURSIVE FollowRule(_, _, _, _, _)
FollowRule(g, fst, k, i, st) ==
    IF i > Len(g[k].pattern) THEN st
    ELSE FollowRule(g, fst, k, i + 1, FollowAt(g, fst, k, i, st))

\* One pass of `for _, rule := range g.rules`, from rule k on.
RECURSIVE FollowRules(_, _, _, _)
FollowRules(g, fst, k, st) ==
    IF k > Len(g) THEN st
    ELSE FollowRules(g, fst, k + 1, FollowRule(g, fst, k, 1, st))

\* SeedFollow without the `$`.
SeedFollowEmpty(g) == [s \in {g[1].symbol} |-> {}]

\* init.Add("$"); follow[g.rules[0].symbol] = init
SeedFollow(g) == [s \in {g[1].symbol} |-> {EOF}]

FollowSeed ==
    /\ pc = "Follow"
    /\ follow' = SeedFollow(rules)
    /\ changed' = TRUE
    /\ pc' = "followLoop"
    /\ UNCHANGED <<gramVars, firstVars>>

\* One iteration of `for changed := true; changed; { ... }`.
FollowPass ==
    /\ pc = "followLoop"
    /\ changed
    /\ LET st == FollowRules(rules, first, 1, <<follow, FALSE>>)
       IN  /\ follow' = st[1]
           /\ changed' = st[2]
    /\ UNCHANGED <<pc, gramVars, firstVars>>

\* return follow
FollowReturn ==
    /\ pc = "followLoop"
    /\ ~changed
    /\ pc' = "followDone"
    /\ UNCHANGED <<gramVars, firstVars, follow, changed>>

\* ------------------------------------------------------------------------
\* The lexer generator: tokens, symM, and the recognizer writeMachine emits
\* ------------------------------------------------------------------------

BlockSpecial == "specials"

BlockSymbol == "symbols"

BlockKeyword == "keywords"

\* A Token; a literal is its sequence of bytes.
MkToken(name, value, block) == [name |-> name, value |-> value, block |-> block]

\* Bytes the Symbol literals are written with.
SymbolBytes == {"=", "!"}

\* The byte r.Next() answers at the end of the input.
NUL == "NUL"

\* Bytes of the inputs: the symbol bytes and a letter.
InputBytes == SymbolBytes \cup {"f"}

Literals == UNION {[1..n -> SymbolBytes] : n \in 1..MaxLit}

\* The sets of at most n literals.
RECURSIVE SetsUpTo(_)
SetsUpTo(n) ==
    IF n = 0 THEN {{}}
    ELSE SetsUpTo(n - 1) \cup {ls \cup {lit} : ls \in SetsUpTo(n - 1), lit \in Literals}

\* The sets of at most MaxTokens Symbol literals, at least one.
LiteralSets == SetsUpTo(MaxTokens) \ {{}}

RECURSIVE SeqOf(_)
SeqOf(set) ==
    IF set = {} THEN << >>
    ELSE LET x == CHOOSE y \in set : TRUE IN <<x>> \o SeqOf(set \ {x})

\* A token file: the specials None and EOF, the Symbol tokens (each named
\* after its literal), and the keyword For.
TokenFile(ls) ==
    LET lits == SeqOf(ls)
    IN  << MkToken(<<"None">>, <<"?">>, BlockSpecial),
           MkToken(<<"EOF">>, <<"$">>, BlockSpecial) >>
        \o [k \in 1..Len(lits) |-> MkToken(lits[k], lits[k], BlockSymbol)]
        \o << MkToken(<<"For">>, <<"f">>, BlockKeyword) >>

\* The token files of the model.
TokenFiles == {TokenFile(ls) : ls \in LiteralSets}

LexInputs == UNION {[1..n -> InputBytes] : n \in 0..MaxLexInput}

\* The token ids the recognizer returns besides the Symbol tokens' own.
tNone == <<"None">>

tEOF == <<"EOF">>

\* A symM with no accept and a nil next.
EmptyNode == [accept |-> << >>, next |-> << >>]

\* symM.add
RECURSIVE add(_, _, _)
add(s, inp, accept) ==
    IF inp = << >> THEN [s EXCEPT !.accept = accept]
    ELSE LET ns == IF Head(inp) \in DOMAIN s.next THEN s.next[Head(inp)] ELSE EmptyNode
         IN  [s EXCEPT !.next = Put(s.next, Head(inp), add(ns, Tail(inp), accept))]

\* The loop of writeMachine that takes every token into the trie.
RECURSIVE AddAllTokens(_, _, _)
AddAllTokens(toks, k, s) ==
    IF k > Len(toks) THEN s
    ELSE AddAllTokens(toks, k + 1, add(s, toks[k].value, toks[k].name))

\* The loop of writeMachine: the tokens in order, those of the symbols block.
RECURSIVE AddTokens(_, _, _)
AddTokens(toks, k, s) ==
    IF k > Len(toks) THEN s
    ELSE AddTokens(toks, k + 1,
                   IF toks[k].block # BlockSymbol THEN s
                   ELSE add(s, toks[k].value, toks[k].name))

\* writeMachine: the trie is built and `func lex` is written from its root.
WriteMachine ==
    /\ pc = "writeMachine"
    /\ sm' = AddTokens(tokens, 1, EmptyNode)
    /\ node' = sm'
    /\ top' = TRUE
    /\ pc' = "lex"
    /\ UNCHANGED <<tokens, lexInput, lexPos, lexResult>>

\* r.Next(): the byte under the read head, NUL at the end of the input.
NextByte == IF lexPos < Len(lexInput) THEN lexInput[lexPos + 1] ELSE NUL

\* The emitted `return t<accept>` of a node without children.
LexLeaf ==
    /\ pc = "lex"
    /\ DOMAIN node.next = {}
    /\ lexResult' = node.accept
    /\ pc' = "lexed"
    /\ UNCHANGED <<tokens, sm, lexInput, lexPos, node, top>>

\* The emitted `case 0: return tEOF` of the top switch.
LexEOF ==
    /\ pc = "lex"
    /\ DOMAIN node.next # {}
    /\ top
    /\ NextByte = NUL
    /\ lexPos' = lexPos + 1
    /\ lexResult' = tEOF
    /\ pc' = "lexed"
    /\ UNCHANGED <<tokens, sm, lexInput, node, top>>

\* The emitted `case '<char>':` of a child: the switch written for the child
\* runs next.
LexCase ==
    /\ pc = "lex"
    /\ DOMAIN node.next # {}
    /\ ~(top /\ NextByte = NUL)
    /\ NextByte \in DOMAIN node.next
    /\ lexPos' = lexPos + 1
    /\ node' = node.next[NextByte]
    /\ top' = FALSE
    /\ UNCHANGED <<pc, tokens, sm, lexInput, lexResult>>

\* The token the default arm returns: the node's accept, or tNone.
DefaultToken(s) == IF s.accept # << >> THEN s.accept ELSE tNone

\* LexDefault without the r.Back(): the byte that ended the match stays read.
LexDefaultNoBack ==
    /\ pc = "lex"
    /\ DOMAIN node.next # {}
    /\ ~(top /\ NextByte = NUL)
    /\ NextByte \notin DOMAIN node.next
    /\ lexPos' = lexPos + 1
    /\ lexResult' = DefaultToken(node)
    /\ pc' = "lexed"
    /\ UNCHANGED <<tokens, sm, lexInput, node, top>>

\* The emitted `default:` arm: r.Back(), then the return.
LexDefault ==
    /\ pc = "lex"
    /\ DOMAIN node.next # {}
    /\ ~(top /\ NextByte = NUL)
    /\ NextByte \notin DOMAIN node.next
    /\ lexResult' = DefaultToken(node)
    /\ pc' = "lexed"
    /\ UNCHANGED <<tokens, sm, lexInput, lexPos, node, top>>

InitLexVars ==
    /\ tokens = << >>
    /\ sm = EmptyNode
    /\ lexInput = << >>
    /\ lexPos = 0
    /\ node = EmptyNode
    /\ top = FALSE
    /\ lexResult = << >>

\* ------------------------------------------------------------------------
\* State outside First and Follow
\* ------------------------------------------------------------------------

restVars == <<lrVars, prev, parseVars, lexVars, toolVars>>

InitLRVars ==
    /\ states = << >>
    /\ allActions = << >>
    /\ idx = 0
    /\ todo = {}
    /\ itemsLeft = {}
    /\ curItem = NoItem
    /\ termsLeft = {}
    /\ diags = << >>
    /\ out = NoText

InitParseVars ==
    /\ input = << >>
    /\ ipos = 0
    /\ stack = << >>
    /\ reduced = << >>
    /\ result = None

InitClosureVars ==
    /\ itemSet0 = {}
    /\ itemSet = {}
    /\ added = {}
    /\ isChanged = FALSE
    /\ isMust = {}
    /\ isSeen = {}
    /\ closed1 = {}

InitPatternVars ==
    /\ patternStr = << >>
    /\ pattern = << >>
    /\ patVars = << >>

InitMainVars ==
    /\ env = << >>
    /\ exitStatus = -1
    /\ stderrText = << >>
    /\ written = FALSE

InitToolVars ==
    /\ InitClosureVars
    /\ InitPatternVars
    /\ InitMainVars

InitRest ==
    /\ InitLRVars
    /\ prev = NoPrev
    /\ InitParseVars
    /\ InitLexVars
    /\ InitToolVars

\* ------------------------------------------------------------------------
\* First followed by Follow on a grammar
\* ------------------------------------------------------------------------

InitSets ==
    /\ pc = "First"
    /\ rules \in FamilyGrammars(MaxSyms) \cup ScenarioGrammars
    /\ symbols = {}
    /\ terminals = {}
    /\ nonterminals = {}
    /\ first = << >>
    /\ follow = << >>
    /\ changed = FALSE
    /\ keysLeft = {}
    /\ cur = None
    /\ must = {}
    /\ visited = {}
    /\ InitRest

NextSets ==
    \/ FirstSeed /\ UNCHANGED restVars
    \/ FirstPassBegin /\ UNCHANGED restVars
    \/ FirstPickSet /\ UNCHANGED restVars
    \/ FirstVisit /\ UNCHANGED restVars
    \/ FirstSetDone /\ UNCHANGED restVars
    \/ FirstPassEnd /\ UNCHANGED restVars
    \/ FirstReturn /\ UNCHANGED restVars
    \/ FollowSeed /\ UNCHANGED restVars
    \/ FollowPass /\ UNCHANGED restVars
    \/ FollowReturn /\ UNCHANGED restVars

SpecSets == InitSets /\ [][NextSets]_vars

\* ------------------------------------------------------------------------
\* Item, ItemSet
\* ------------------------------------------------------------------------

\* Rules and states are numbered from 0 as in the program; g[r + 1] is rule r.
RuleAt(g, r) == g[r + 1]

\* Item.NextSym: whether the dot is at the end of the pattern.
AtEnd(g, it) == it.pos = Len(RuleAt(g, it.rule).pattern)

\* Item.NextSym: the symbol right of the dot.
NextSym(g, it) == IF AtEnd(g, it) THEN "" ELSE RuleAt(g, it.rule).pattern[it.pos + 1]

\* Equals that compares the sizes only.
EqualsLenOnly(is, os) == Cardinality(is) = Cardinality(os)

\* ItemSet.Equals
Equals(is, os) ==
    /\ Cardinality(is) = Cardinality(os)
    /\ \A k \in is : k \in os

\* One pass of the loop of Closure over the items the set holds when the
\* pass begins; guard is the `added` map. A pass that adds nothing ends it.
RECURSIVE ClosureLoop(_, _, _)
ClosureLoop(g, is, guard) ==
    LET syms == {NextSym(g, it) : it \in {j \in is : ~AtEnd(g, j)}} \ guard
        expand == {sym \in syms : \E k \in DOMAIN g : g[k].symbol = sym}
        grown == is \cup {MkItem(k - 1, 0) : k \in {j \in DOMAIN g : g[j].symbol \in expand}}
    IN  IF expand = {} THEN is ELSE ClosureLoop(g, grown, guard \cup expand)

\* ItemSet.Closure
Closure(g, is) == ClosureLoop(g, is, {})

\* Goto that leaves the dot where it is.
GotoNoAdvance(g, is, x) ==
    Closure(g, {it \in is : ~AtEnd(g, it) /\ NextSym(g, it) = x})

\* ItemSet.Goto
Goto(g, is, x) ==
    Closure(g, {MkItem(it.rule, it.pos + 1) :
                   it \in {j \in is : ~AtEnd(g, j) /\ NextSym(g, j) = x}})

\* ------------------------------------------------------------------------
\* ComputeActions
\* ------------------------------------------------------------------------

Shift(state) == [kind |-> "Shift", state |-> state]

Reduce(rule) == [kind |-> "Reduce", rule |-> rule]

\* FindState that does not compare with the last state of the list.
FindStateSkipLast(sts, c) ==
    LET hits == {j \in 1..(Len(sts) - 1) : Equals(c, sts[j])}
    IN  IF hits = {} THEN -1
        ELSE (CHOOSE j \in hits : \A k \in hits : j <= k) - 1

\* "Save this set if new": the number of the first state equal to c, or -1.
FindState(sts, c) ==
    LET hits == {j \in 1..Len(sts) : Equals(c, sts[j])}
    IN  IF hits = {} THEN -1
        ELSE (CHOOSE j \in hits : \A k \in hits : j <= k) - 1

\* Conflict that sees shift entries only.
ConflictShiftOnly(row, term) == term \in DOMAIN row /\ row[term].kind = "Shift"

\* actions[term] != nil
Conflict(row, term) == term \in DOMAIN row

\* The diagnostic of a reduce conflict: state, input, the entry and the rule.
Diag(state, term, old, rule) ==
    [state |-> state, term |-> term, old |-> old, rule |-> rule]

\* states := []ItemSet{{Item{rules[0], 0}}}; states[0].Closure(grammar)
EnterEnum ==
    /\ pc = "followDone"
    /\ states' = << Closure(rules, {MkItem(0, 0)}) >>
    /\ allActions' = << >>
    /\ idx' = 0
    /\ pc' = "enum"
    /\ UNCHANGED <<gramVars, firstVars, follow, changed>>
    /\ UNCHANGED <<todo, itemsLeft, curItem, termsLeft, diags, out>>

\* for i := 0; i < len(states); i++ { actions := make(...); append }
EnumBegin ==
    /\ pc = "enum"
    /\ idx < Len(states)
    /\ allActions' = Append(allActions, << >>)
    /\ todo' = symbols
    /\ pc' = "enumRange"
    /\ UNCHANGED <<gramVars, firstVars, follow, changed>>
    /\ UNCHANGED <<states, idx, itemsLeft, curItem, termsLeft, diags, out>>

\* One iteration of `for term := range grammar.symbols`.
EnumStep ==
    /\ pc = "enumRange"
    /\ \E term \in todo :
        LET c == Goto(rules, states[idx + 1], term)
            found == FindState(states, c)
            id == IF found = -1 THEN Len(states) ELSE found
        IN  /\ todo' = todo \ {term}
            /\ IF c = {}
               THEN UNCHANGED <<states, allActions>>
               ELSE /\ states' = IF found = -1 THEN Append(states, c) ELSE states
                    /\ allActions' =
                          [allActions EXCEPT ![idx + 1] = Put(@, term, Shift(id))]
    /\ UNCHANGED <<pc, gramVars, firstVars, follow, changed>>
    /\ UNCHANGED <<idx, itemsLeft, curItem, termsLeft, diags, out>>

\* The range over grammar.symbols ends; i++.
EnumEnd ==
    /\ pc = "enumRange"
    /\ todo = {}
    /\ idx' = idx + 1
    /\ pc' = "enum"
    /\ UNCHANGED <<gramVars, firstVars, follow, changed>>
    /\ UNCHANGED <<states, allActions, todo, itemsLeft, curItem, termsLeft, diags, out>>

\* i == len(states): the enumeration is over; the reduce loop begins.
EnumDone ==
    /\ pc = "enum"
    /\ idx >= Len(states)
    /\ idx' = 0
    /\ pc' = "reduce"
    /\ UNCHANGED <<gramVars, firstVars, follow, changed>>
    /\ UNCHANGED <<states, allActions, todo, itemsLeft, curItem, termsLeft, diags, out>>

\* for i, set := range states { actions := allActions[i]
ReduceBegin ==
    /\ pc = "reduce"
    /\ idx < Len(states)
    /\ itemsLeft' = states[idx + 1]
    /\ pc' = "reduceItems"
    /\ UNCHANGED <<gramVars, firstVars, follow, changed>>
    /\ UNCHANGED <<states, allActions, idx, todo, curItem, termsLeft, diags, out>>

\* `for item := range set` produces an item; one not at its end is skipped.
ReducePickItem ==
    /\ pc = "reduceItems"
    /\ curItem = NoItem
    /\ \E item \in itemsLeft :
        /\ itemsLeft' = itemsLeft \ {item}
        /\ IF AtEnd(rules, item)
           THEN /\ curItem' = item
                /\ termsLeft' = Get(follow, RuleAt(rules, item.rule).symbol)
           ELSE UNCHANGED <<curItem, termsLeft>>
    /\ UNCHANGED <<pc, gramVars, firstVars, follow, changed>>
    /\ UNCHANGED <<states, allActions, idx, todo, diags, out>>

\* ReduceTerm that leaves an entry already taken as it is: the conflict is
\* reported and the earlier action stays.
ReduceTermKeep ==
    /\ pc = "reduceItems"
    /\ curItem # NoItem
    /\ \E term \in termsLeft :
        LET row == allActions[idx + 1]
        IN  /\ termsLeft' = termsLeft \ {term}
            /\ diags' = IF Conflict(row, term)
                        THEN Append(diags, Diag(idx, term, row[term], curItem.rule))
                        ELSE diags
            /\ allActions' =
                  IF Conflict(row, term) THEN allActions
                  ELSE [allActions EXCEPT ![idx + 1] = Put(@, term, Reduce(curItem.rule))]
    /\ UNCHANGED <<pc, gramVars, firstVars, follow, changed>>
    /\ UNCHANGED <<states, idx, todo, itemsLeft, curItem, out>>

\* One iteration of `for term := range f`: report a conflict if the entry is
\* taken, then write the Reduce.
ReduceTerm ==
    /\ pc = "reduceItems"
    /\ curItem # NoItem
    /\ \E term \in termsLeft :
        LET row == allActions[idx + 1]
        IN  /\ termsLeft' = termsLeft \ {term}
            /\ diags' = IF Conflict(row, term)
                        THEN Append(diags, Diag(idx, term, row[term], curItem.rule))
                        ELSE diags
            /\ allActions' =
                  [allActions EXCEPT ![idx + 1] = Put(@, term, Reduce(curItem.rule))]
    /\ UNCHANGED <<pc, gramVars, firstVars, follow, changed>>
    /\ UNCHANGED <<states, idx, todo, itemsLeft, curItem, out>>

\* The range over the follow set ends.
ReduceItemDone ==
    /\ pc = "reduceItems"
    /\ curItem # NoItem
    /\ termsLeft = {}
    /\ curItem' = NoItem
    /\ UNCHANGED <<pc, gramVars, firstVars, follow, changed>>
    /\ UNCHANGED <<states, allActions, idx, todo, itemsLeft, termsLeft, diags, out>>

\* The range over the item set ends; the next state.
ReduceStateDone ==
    /\ pc = "reduceItems"
    /\ curItem = NoItem
    /\ itemsLeft = {}
    /\ idx' = idx + 1
    /\ pc' = "reduce"
    /\ UNCHANGED <<gramVars, firstVars, follow, changed>>
    /\ UNCHANGED <<states, allActions, todo, itemsLeft, curItem, termsLeft, diags, out>>

\* return allActions
ComputeActionsReturn ==
    /\ pc = "reduce"
    /\ idx >= Len(states)
    /\ pc' = "writeTables"
    /\ UNCHANGED <<gramVars, firstVars, follow, changed, lrVars>>

\* ------------------------------------------------------------------------
\* writeTables
\* ------------------------------------------------------------------------

\* The symbols of the model in the order of sort.Strings (byte order).
SymOrder ==
    << "$", "+", "A", "S", "a", "b", "digit", "expr", "item", "list", "num",
       "s", "start", "t", "x" >>

\* sort.Strings(keys)
SortStrings(keys) == SelectSeq(SymOrder, LAMBDA sym : sym \in keys)

\* Encode without the sign: a reduce is written as its rule's number.
EncodeUnsigned(action) ==
    IF action.kind = "Shift" THEN action.state ELSE action.rule

\* The number written for an action: a shift's state, minus a reduce's rule.
Encode(action) ==
    IF action.kind = "Shift" THEN action.state ELSE 0 - action.rule

\* The lines `"tok": n,` of one row, in sorted key order.
RowLines(row) ==
    LET keys == SortStrings(DOMAIN row)
    IN  [k \in 1..Len(keys) |-> <<keys[k], Encode(row[keys[k]])>>]

\* The emitted text: the rule list, then one block of lines per state.
TablesText(g, table) ==
    [ rules |-> [k \in 1..Len(g) |-> <<g[k].symbol, g[k].pattern>>],
      actions |-> [k \in 1..Len(table) |-> RowLines(table[k])] ]

WriteTables ==
    /\ pc = "writeTables"
    /\ out' = TablesText(rules, allActions)
    /\ pc' = "done"
    /\ UNCHANGED <<gramVars, firstVars, follow, changed>>
    /\ UNCHANGED <<states, allActions, idx, todo, itemsLeft, curItem, termsLeft, diags>>

InitGrammar(grammars) ==
    /\ pc = "First"
    /\ rules \in grammars
    /\ symbols = {}
    /\ terminals = {}
    /\ nonterminals = {}
    /\ first = << >>
    /\ follow = << >>
    /\ changed = FALSE
    /\ keysLeft = {}
    /\ cur = None
    /\ must = {}
    /\ visited = {}

InitLR ==
    /\ InitGrammar(FamilyGrammars(MaxSymsLR) \cup ScenarioGrammars)
    /\ InitRest

NextLR ==
    \/ FirstSeed /\ UNCHANGED restVars
    \/ FirstPassBegin /\ UNCHANGED restVars
    \/ FirstPickSet /\ UNCHANGED restVars
    \/ FirstVisit /\ UNCHANGED restVars
    \/ FirstSetDone /\ UNCHANGED restVars
    \/ FirstPassEnd /\ UNCHANGED restVars
    \/ FirstReturn /\ UNCHANGED restVars
    \/ FollowSeed /\ UNCHANGED restVars
    \/ FollowPass /\ UNCHANGED restVars
    \/ FollowReturn /\ UNCHANGED restVars
    \/ EnterEnum /\ UNCHANGED <<prev, parseVars, lexVars, toolVars>>
    \/ EnumBegin /\ UNCHANGED <<prev, parseVars, lexVars, toolVars>>
    \/ EnumStep /\ UNCHANGED <<prev, parseVars, lexVars, toolVars>>
    \/ EnumEnd /\ UNCHANGED <<prev, parseVars, lexVars, toolVars>>
    \/ EnumDone /\ UNCHANGED <<prev, parseVars, lexVars, toolVars>>
    \/ ReduceBegin /\ UNCHANGED <<prev, parseVars, lexVars, toolVars>>
    \/ ReducePickItem /\ UNCHANGED <<prev, parseVars, lexVars, toolVars>>
    \/ ReduceTerm /\ UNCHANGED <<prev, parseVars, lexVars, toolVars>>
    \/ ReduceItemDone /\ UNCHANGED <<prev, parseVars, lexVars, toolVars>>
    \/ ReduceStateDone /\ UNCHANGED <<prev, parseVars, lexVars, toolVars>>
    \/ ComputeActionsReturn /\ UNCHANGED <<prev, parseVars, lexVars, toolVars>>
    \/ WriteTables /\ UNCHANGED <<prev, parseVars, lexVars, toolVars>>

SpecLR == InitLR /\ [][NextLR]_vars

\* ------------------------------------------------------------------------
\* Main run twice on the same input
\* ------------------------------------------------------------------------

\* The driver is started again on the same rules; the table and the text of
\* the run that ended are kept for comparison.
Rerun ==
    /\ pc = "done"
    /\ prev = NoPrev
    /\ prev' = [table |-> allActions, text |-> out]
    /\ pc' = "First"
    /\ symbols' = {}
    /\ terminals' = {}
    /\ nonterminals' = {}
    /\ first' = << >>
    /\ follow' = << >>
    /\ changed' = FALSE
    /\ keysLeft' = {}
    /\ cur' = None
    /\ must' = {}
    /\ visited' = {}
    /\ states' = << >>
    /\ allActions' = << >>
    /\ idx' = 0
    /\ todo' = {}
    /\ itemsLeft' = {}
    /\ curItem' = NoItem
    /\ termsLeft' = {}
    /\ diags' = << >>
    /\ out' = NoText
    /\ UNCHANGED <<rules, parseVars, lexVars, toolVars>>

InitTwice ==
    /\ InitGrammar(ScenarioGrammars)
    /\ InitRest

NextTwice ==
    \/ NextLR
    \/ Rerun

SpecTwice == InitTwice /\ [][NextTwice]_vars

\* ------------------------------------------------------------------------
\* The table-driven parser run on the ActionTable
\* ------------------------------------------------------------------------

\* Token streams of at most MaxInput terminals, closed by $.
Inputs(terms) ==
    {inp \o <<EOF>> : inp \in UNION {[1..n -> terms \ {EOF}] : n \in 0..MaxInput}}

\* The token under the read head; the lexer answers $ for good at the end.
Lookahead == IF ipos >= Len(input) THEN EOF ELSE input[ipos + 1]

ParseBegin ==
    /\ pc = "done"
    /\ \E inp \in Inputs(terminals) : input' = inp
    /\ ipos' = 0
    /\ stack' = <<0>>
    /\ reduced' = << >>
    /\ result' = None
    /\ pc' = "parse"
    /\ UNCHANGED <<gramVars, firstVars, follow, changed, lrVars, prev>>

\* No action for the lookahead in the row of the top state: a syntax error.
ParseError ==
    /\ pc = "parse"
    /\ Lookahead \notin DOMAIN allActions[stack[Len(stack)] + 1]
    /\ result' = "error"
    /\ pc' = "parsed"
    /\ UNCHANGED <<gramVars, firstVars, follow, changed, lrVars, prev>>
    /\ UNCHANGED <<input, ipos, stack, reduced>>

\* Shift: consume the token and push the new state.
ParseShift ==
    /\ pc = "parse"
    /\ Lookahead \in DOMAIN allActions[stack[Len(stack)] + 1]
    /\ LET action == allActions[stack[Len(stack)] + 1][Lookahead]
       IN  /\ action.kind = "Shift"
           /\ stack' = Append(stack, action.state)
           /\ ipos' = IF ipos >= Len(input) THEN ipos ELSE ipos + 1
    /\ UNCHANGED <<gramVars, firstVars, follow, changed, lrVars, prev>>
    /\ UNCHANGED <<pc, input, reduced, result>>

\* Reduce: a reduce of the start rule on $ accepts; any other pops the
\* pattern and pushes the state the row below shifts to on the rule's symbol.
ParseReduce ==
    /\ pc = "parse"
    /\ Lookahead \in DOMAIN allActions[stack[Len(stack)] + 1]
    /\ LET action == allActions[stack[Len(stack)] + 1][Lookahead]
       IN  /\ action.kind = "Reduce"
           /\ LET rule == RuleAt(rules, action.rule)
                  n == Len(rule.pattern)
                  rest == SubSeq(stack, 1, Len(stack) - n)
                  row == allActions[rest[Len(rest)] + 1]
              IN  /\ reduced' = Append(reduced, rule.symbol)
                  /\ IF action.rule = 0 /\ Lookahead = EOF
                     THEN /\ result' = "accept"
                          /\ pc' = "parsed"
                          /\ UNCHANGED stack
                     ELSE IF /\ Len(stack) > n
                             /\ rule.symbol \in DOMAIN row
                             /\ row[rule.symbol].kind = "Shift"
                          THEN /\ stack' = Append(rest, row[rule.symbol].state)
                               /\ UNCHANGED <<pc, result>>
                          ELSE /\ result' = "error"
                               /\ pc' = "parsed"
                               /\ UNCHANGED stack
    /\ UNCHANGED <<gramVars, firstVars, follow, changed, lrVars, prev>>
    /\ UNCHANGED <<input, ipos>>

InitParse ==
    /\ InitGrammar(ScenarioGrammars)
    /\ InitRest

NextParse ==
    \/ NextLR
    \/ ParseBegin /\ UNCHANGED <<lexVars, toolVars>>
    \/ ParseError /\ UNCHANGED <<lexVars, toolVars>>
    \/ ParseShift /\ UNCHANGED <<lexVars, toolVars>>
    \/ ParseReduce /\ UNCHANGED <<lexVars, toolVars>>

SpecParse == InitParse /\ [][NextParse]_vars

\* ------------------------------------------------------------------------
\* The recognizer generated for a token file, run on an input
\* ------------------------------------------------------------------------

InitLex ==
    /\ pc = "writeMachine"
    /\ rules = << >>
    /\ symbols = {}
    /\ terminals = {}
    /\ nonterminals = {}
    /\ first = << >>
    /\ follow = << >>
    /\ changed = FALSE
    /\ keysLeft = {}
    /\ cur = None
    /\ must = {}
    /\ visited = {}
    /\ InitLRVars
    /\ prev = NoPrev
    /\ InitParseVars
    /\ InitToolVars
    /\ tokens \in TokenFiles
    /\ sm = EmptyNode
    /\ lexInput \in LexInputs
    /\ lexPos = 0
    /\ node = EmptyNode
    /\ top = FALSE
    /\ lexResult = << >>

lexRest == <<gramVars, firstVars, follow, changed, lrVars, prev, parseVars, toolVars>>

NextLex ==
    \/ WriteMachine /\ UNCHANGED lexRest
    \/ LexLeaf /\ UNCHANGED lexRest
    \/ LexEOF /\ UNCHANGED lexRest
    \/ LexCase /\ UNCHANGED lexRest
    \/ LexDefault /\ UNCHANGED lexRest

SpecLex == InitLex /\ [][NextLex]_vars

\* ------------------------------------------------------------------------
\* ItemSet.Closure, one item of `for item := range is` at a time
\* ------------------------------------------------------------------------

\* Every item of a grammar.
AllItems(g) ==
    UNION {{MkItem(k - 1, p) : p \in 0..Len(g[k].pattern)} : k \in DOMAIN g}

\* A grammar whose start rule asks for a symbol of two rules, one of which
\* asks for a further symbol.
NestedGrammar ==
    << MkRule("s", <<"a">>), MkRule("a", <<"a", "+", "b">>),
       MkRule("a", <<"b">>), MkRule("b", <<"x">>) >>

\* The item sets Closure is called on: at most MaxKernel items, at least one.
KernelSets(g) ==
    {set \in SUBSET AllItems(g) : set # {} /\ Cardinality(set) <= MaxKernel}

\* The rules `for _, rule := range grammar.rules` finds for sym.
RulesOf(g, sym) == {k \in DOMAIN g : g[k].symbol = sym}

\* added := make(map[string]bool); changed := true
ClosureEnter ==
    /\ pc = "Closure"
    /\ added' = {}
    /\ isChanged' = TRUE
    /\ pc' = "closureLoop"
    /\ UNCHANGED <<itemSet0, itemSet, isMust, isSeen, closed1>>

\* for changed := true; changed; { changed = false; for item := range is
ClosurePassBegin ==
    /\ pc = "closureLoop"
    /\ isChanged
    /\ isChanged' = FALSE
    /\ isMust' = itemSet
    /\ isSeen' = {}
    /\ pc' = "closurePass"
    /\ UNCHANGED <<itemSet0, itemSet, added, closed1>>

\* ClosureVisit that stops at the first rule of the symbol: the guard is set
\* although later rules of the symbol were not added.
ClosureVisitFirstRule ==
    /\ pc = "closurePass"
    /\ \E item \in itemSet \ isSeen :
        LET sym == NextSym(rules, item)
            found == RulesOf(rules, sym)
            firstOf == {k \in found : \A j \in found : k <= j}
        IN  /\ isSeen' = isSeen \cup {item}
            /\ IF AtEnd(rules, item) \/ sym \in added \/ found = {}
               THEN UNCHANGED <<itemSet, isChanged, added>>
               ELSE /\ itemSet' = itemSet \cup {MkItem(k - 1, 0) : k \in firstOf}
                    /\ isChanged' = TRUE
                    /\ added' = added \cup {sym}
    /\ UNCHANGED <<pc, itemSet0, isMust, closed1>>

\* The range produces an item: one the set held when the range began, or one
\* added since. An item not at its end whose symbol is not yet guarded gets
\* every rule of that symbol added; changed and the guard are set when there
\* is such a rule.
ClosureVisit ==
    /\ pc = "closurePass"
    /\ \E item \in itemSet \ isSeen :
        LET sym == NextSym(rules, item)
            found == RulesOf(rules, sym)
        IN  /\ isSeen' = isSeen \cup {item}
            /\ IF AtEnd(rules, item) \/ sym \in added \/ found = {}
               THEN UNCHANGED <<itemSet, isChanged, added>>
               ELSE /\ itemSet' = itemSet \cup {MkItem(k - 1, 0) : k \in found}
                    /\ isChanged' = TRUE
                    /\ added' = added \cup {sym}
    /\ UNCHANGED <<pc, itemSet0, isMust, closed1>>

\* The range ends: every item present at its start was produced.
ClosurePassEnd ==
    /\ pc = "closurePass"
    /\ isMust \subseteq isSeen
    /\ isMust' = {}
    /\ isSeen' = {}
    /\ pc' = "closureLoop"
    /\ UNCHANGED <<itemSet0, itemSet, added, isChanged, closed1>>

\* The loop ends with changed false; Closure returns.
ClosureReturn ==
    /\ pc = "closureLoop"
    /\ ~isChanged
    /\ pc' = "closureDone"
    /\ UNCHANGED closureVars

\* Closure is called again on the set it returned.
ClosureAgain ==
    /\ pc = "closureDone"
    /\ closed1 = {}
    /\ closed1' = itemSet
    /\ pc' = "Closure"
    /\ UNCHANGED <<itemSet0, itemSet, added, isChanged, isMust, isSeen>>

closureRest ==
    <<gramVars, firstVars, follow, changed, lrVars, prev, parseVars, lexVars,
      patternVars, mainVars>>

InitClosure ==
    /\ pc = "Closure"
    /\ rules \in FamilyGrammars(MaxSymsClosure) \cup ScenarioGrammars \cup {NestedGrammar}
    /\ symbols = {}
    /\ terminals = {}
    /\ nonterminals = {}
    /\ first = << >>
    /\ follow = << >>
    /\ changed = FALSE
    /\ keysLeft = {}
    /\ cur = None
    /\ must = {}
    /\ visited = {}
    /\ InitLRVars
    /\ prev = NoPrev
    /\ InitParseVars
    /\ InitLexVars
    /\ InitPatternVars
    /\ InitMainVars
    /\ itemSet0 \in KernelSets(rules)
    /\ itemSet = itemSet0
    /\ added = {}
    /\ isChanged = FALSE
    /\ isMust = {}
    /\ isSeen = {}
    /\ closed1 = {}

NextClosure ==
    \/ ClosureEnter /\ UNCHANGED closureRest
    \/ ClosurePassBegin /\ UNCHANGED closureRest
    \/ ClosureVisit /\ UNCHANGED closureRest
    \/ ClosurePassEnd /\ UNCHANGED closureRest
    \/ ClosureReturn /\ UNCHANGED closureRest
    \/ ClosureAgain /\ UNCHANGED closureRest

SpecClosure == InitClosure /\ [][NextClosure]_vars

\* ------------------------------------------------------------------------
\* parsePattern
\* ------------------------------------------------------------------------

\* The bytes pattern strings are written with: a letter, the equals sign,
\* the apostrophe, the space and the tab.
PatternBytes == {"A", "=", "'", " ", "\t"}

\* The strings parsePattern is called on, as sequences of bytes.
PatternStrs == UNION {[1..n -> PatternBytes] : n \in 0..MaxPattern}

\* strings.Split(s, " "): the pieces between the spaces; one piece, the empty
\* string, for the empty string.
RECURSIVE Split(_)
Split(s) ==
    IF \A k \in DOMAIN s : s[k] # " " THEN <<s>>
    ELSE LET at == CHOOSE k \in DOMAIN s :
                        s[k] = " " /\ \A j \in 1..(k - 1) : s[j] # " "
         IN  <<SubSeq(s, 1, at - 1)>> \o Split(SubSeq(s, at + 1, Len(s)))

\* len(pat) > 2 && pat[0] != '\'' && pat[1] == '='
Splits(pat) == Len(pat) > 2 /\ pat[1] # "'" /\ pat[2] = "="

\* The pattern parsePattern returns for the pieces.
PatternOf(pieces) ==
    [k \in DOMAIN pieces |->
        IF Splits(pieces[k]) THEN SubSeq(pieces[k], 3, Len(pieces[k])) ELSE pieces[k]]

\* The vars parsePattern returns for the pieces.
VarsOf(pieces) ==
    [k \in DOMAIN pieces |->
        IF Splits(pieces[k]) THEN SubSeq(pieces[k], 1, 1) ELSE << >>]

ParsePattern ==
    /\ pc = "parsePattern"
    /\ pattern' = PatternOf(Split(patternStr))
    /\ patVars' = VarsOf(Split(patternStr))
    /\ pc' = "patternDone"
    /\ UNCHANGED patternStr

patternRest ==
    <<gramVars, firstVars, follow, changed, lrVars, prev, parseVars, lexVars,
      closureVars, mainVars>>

InitPattern ==
    /\ pc = "parsePattern"
    /\ rules = << >>
    /\ symbols = {}
    /\ terminals = {}
    /\ nonterminals = {}
    /\ first = << >>
    /\ follow = << >>
    /\ changed = FALSE
    /\ keysLeft = {}
    /\ cur = None
    /\ must = {}
    /\ visited = {}
    /\ InitLRVars
    /\ prev = NoPrev
    /\ InitParseVars
    /\ InitLexVars
    /\ InitClosureVars
    /\ InitMainVars
    /\ patternStr \in PatternStrs
    /\ pattern = << >>
    /\ patVars = << >>

NextPattern ==
    \/ ParsePattern /\ UNCHANGED patternRest

SpecPattern == InitPattern /\ [][NextPattern]_vars

\* ------------------------------------------------------------------------
\* main: the driver, its two modes and its ways out
\* ------------------------------------------------------------------------

\* What the first function declaration of an lr input looks like: whether it
\* has a body, what its first statement is, whether it has a result type.
FuncDecls ==
    [body : BOOLEAN, arg : {"string", "notLiteral", "noCall"}, results : BOOLEAN]

\* The arguments of a run and what it meets outside the program.
Envs ==
    [ nargs : 0..MaxArgs,                \* flag.NArg()
      mode : {"lex", "lr", "other"},     \* flag.Arg(0)
      openOK : BOOLEAN,                  \* the input file can be read
      header : {"known", "unknown"},     \* lex: the block headers of the file
      scanErr : BOOLEAN,                 \* lex: the scanner ends with an error
      parseOK : BOOLEAN,                 \* lr: the input is Go the parser takes
      fn : FuncDecls,                    \* lr: the function declaration
      fmtOK : BOOLEAN,                   \* format.Source takes the output
      writeOK : BOOLEAN ]                \* output() can create and write

\* os.Exit(status) after text went to stderr.
Exit(status, text) ==
    /\ exitStatus' = status
    /\ stderrText' = Append(stderrText, text)
    /\ pc' = "exited"
    /\ UNCHANGED <<env, written>>

\* check(err) with a non-nil error.
Check(text) == Exit(1, text)

\* A panic nobody recovers: the runtime prints it and exits with status 2.
Panic(text) == Exit(2, text)

\* The next step of the run.
Goes(to) ==
    /\ pc' = to
    /\ UNCHANGED <<env, exitStatus, stderrText, written>>

\* flag.Parse(); if flag.NArg() < 2 { flag.Usage(); os.Exit(1) }
MainArgs ==
    /\ pc = "main"
    /\ IF env.nargs < 2 THEN Exit(1, "usage") ELSE Goes("switch")

\* switch mode
MainSwitch ==
    /\ pc = "switch"
    /\ IF env.mode = "lex" THEN Goes("lex.Main")
       ELSE IF env.mode = "lr" THEN Goes("lr.Main")
       ELSE Check("unknown mode")

\* lex.Main: os.Open(infile)
LexOpen ==
    /\ pc = "lex.Main"
    /\ IF env.openOK THEN Goes("ReadTokens") ELSE Check("open")

\* ReadTokens: an unknown block header ends in log.Fatalf, an error of the
\* scanner in panic(err); which comes first depends on where in the file
\* they are.
ReadTokens ==
    /\ pc = "ReadTokens"
    /\ \/ env.header = "unknown" /\ Exit(1, "unknown block")
       \/ env.scanErr /\ Panic("panic")
       \/ env.header = "known" /\ ~env.scanErr /\ Goes("lexFmt")

\* lex.Main: the write* calls and `return w.Fmt()`.
LexFmt ==
    /\ pc = "lexFmt"
    /\ IF env.fmtOK THEN Goes("output") ELSE Check("format")

\* lr.Main: Parse(infile), its parser.ParseFile.
LrParseFile ==
    /\ pc = "lr.Main"
    /\ IF env.openOK /\ env.parseOK THEN Goes("processFunction") ELSE Check("parse")

\* processFunction: fn.Body.List of a declaration without body, the type
\* assertion of isSyntaxCall, and fn.Type.Results.List[0] without results
\* each panic.
ProcessFunction ==
    /\ pc = "processFunction"
    /\ IF ~env.fn.body THEN Panic("panic")
       ELSE IF env.fn.arg = "noCall" THEN Goes("ComputeActions")
       ELSE IF env.fn.arg = "notLiteral" THEN Panic("panic")
       ELSE IF ~env.fn.results THEN Panic("panic")
       ELSE Goes("ComputeActions")

\* lr.Main from ComputeActions to w.Fmt(): with no rule, grammar.rules[0]
\* panics.
LrGenerate ==
    /\ pc = "ComputeActions"
    /\ IF env.fn.arg = "noCall" THEN Panic("panic")
       ELSE IF env.fmtOK THEN Goes("output")
       ELSE Check("format")

\* check(output(data)), and the return from main.
Output ==
    /\ pc = "output"
    /\ IF env.writeOK
       THEN /\ written' = TRUE
            /\ exitStatus' = 0
            /\ pc' = "exited"
            /\ UNCHANGED <<env, stderrText>>
       ELSE Check("output")

mainRest ==
    <<gramVars, firstVars, follow, changed, lrVars, prev, parseVars, lexVars,
      closureVars, patternVars>>

InitMain ==
    /\ pc = "main"
    /\ rules = << >>
    /\ symbols = {}
    /\ terminals = {}
    /\ nonterminals = {}
    /\ first = << >>
    /\ follow = << >>
    /\ changed = FALSE
    /\ keysLeft = {}
    /\ cur = None
    /\ must = {}
    /\ visited = {}
    /\ InitLRVars
    /\ prev = NoPrev
    /\ InitParseVars
    /\ InitLexVars
    /\ InitClosureVars
    /\ InitPatternVars
    /\ env \in Envs
    /\ exitStatus = -1
    /\ stderrText = << >>
    /\ written = FALSE

NextMain ==
    \/ MainArgs /\ UNCHANGED mainRest
    \/ MainSwitch /\ UNCHANGED mainRest
    \/ LexOpen /\ UNCHANGED mainRest
    \/ ReadTokens /\ UNCHANGED mainRest
    \/ LexFmt /\ UNCHANGED mainRest
    \/ LrParseFile /\ UNCHANGED mainRest
    \/ ProcessFunction /\ UNCHANGED mainRest
    \/ LrGenerate /\ UNCHANGED mainRest
    \/ Output /\ UNCHANGED mainRest

SpecMain == InitMain /\ [][NextMain]_vars

\* ------------------------------------------------------------------------
\* ComputeActions and Closure run to their end
\* ------------------------------------------------------------------------

\* A run of ComputeActions and writeTables on a grammar, or a run of Closure
\* on an item set.
InitTerm ==
    \/ /\ InitGrammar(FamilyGrammars(MaxSymsTerm) \cup ScenarioGrammars)
       /\ InitRest
    \/ InitClosure

NextTerm ==
    \/ NextLR
    \/ NextClosure

\* The program is sequential and always takes its next step.
SpecTerm == InitTerm /\ [][NextTerm]_vars /\ WF_vars(NextTerm)

\* ------------------------------------------------------------------------
\* Derivations, stated independently of the fixpoint loops
\* ------------------------------------------------------------------------

\* The symbols that begin a sentential form derived from a member of set.
RECURSIVE BeginClosure(_, _)
BeginClosure(g, set) ==
    LET nxt == set \cup {g[k].pattern[1] : k \in {j \in DOMAIN g : g[j].symbol \in set}}
    IN  IF nxt = set THEN set ELSE BeginClosure(g, nxt)

\* The terminals that begin a derivation from S.
DerivFirst(g, S) == BeginClosure(g, {S}) \cap CollectTerminals(g)

\* The symbols that end a sentential form derived from a member of set.
RECURSIVE EndClosure(_, _)
EndClosure(g, set) ==
    LET nxt == set \cup {g[k].pattern[Len(g[k].pattern)] :
                            k \in {j \in DOMAIN g : g[j].symbol \in set}}
    IN  IF nxt = set THEN set ELSE EndClosure(g, nxt)

\* The pairs <<X, Y>> with Y right after X in a sentential form derived from
\* start $: the least set holding <<start, $>> and closed under replacing a
\* nonterminal by one of its patterns.
RECURSIVE AdjClosure(_, _)
AdjClosure(g, adj) ==
    LET occurs == {p[1] : p \in adj}
        used == {k \in DOMAIN g : g[k].symbol \in occurs}
        inner == UNION {{<<g[k].pattern[i], g[k].pattern[i + 1]>> :
                            i \in 1..(Len(g[k].pattern) - 1)} : k \in used}
        left == UNION {{<<p[1], g[k].pattern[1]>> :
                            p \in {q \in adj : q[2] = g[k].symbol}} : k \in used}
        right == UNION {{<<g[k].pattern[Len(g[k].pattern)], p[2]>> :
                            p \in {q \in adj : q[1] = g[k].symbol}} : k \in used}
        nxt == adj \cup inner \cup left \cup right
    IN  IF nxt = adj THEN adj ELSE AdjClosure(g, nxt)

Adjacent(g) == AdjClosure(g, {<<g[1].symbol, EOF>>})

\* The terminals (or $) that come right after S in such a sentential form.
DerivFollow(g, S) ==
    {t \in CollectTerminals(g) \cup {EOF} : <<S, t>> \in Adjacent(g)}

\* The symbols that occur in a sentential form derived from the start symbol.
Reachable(g) == {p[1] : p \in Adjacent(g)}

AllRulesReachable(g) == \A k \in DOMAIN g : g[k].symbol \in Reachable(g)

FirstReturned == pc \notin {"First", "firstLoop", "firstPass"}

FollowReturned == pc \notin {"First", "firstLoop", "firstPass", "Follow", "followLoop"}

\* ------------------------------------------------------------------------
\* Claims about First and Follow
\* ------------------------------------------------------------------------

\* C2: after First returns, every member of every first set is a terminal.
C2_FirstOnlyTerminals ==
    FirstReturned => \A s \in DOMAIN first : first[s] \subseteq terminals

\* C6: after First returns, a terminal t is in first[S] exactly when some
\* derivation from S begins with t, and first[t] = {t} for every terminal t.
C6_FirstIsDerivFirst ==
    FirstReturned =>
        /\ \A S \in symbols : \A t \in terminals :
              t \in Get(first, S) <=> t \in DerivFirst(rules, S)
        /\ \A t \in terminals : Get(first, t) = {t}

\* First has returned on a grammar where a terminal reaches first[S] only
\* through another nonterminal.
C6_Witness ==
    /\ FirstReturned
    /\ \E S \in nonterminals : \E t \in terminals :
          /\ t \in Get(first, S)
          /\ \A k \in DOMAIN rules : rules[k].symbol = S => rules[k].pattern[1] # t

\* C5 as claimed: after Follow returns, for every grammar, t is in follow[S]
\* exactly when t can come right after S in a sentential form derived from
\* start $.
C5_FollowExactEveryGrammar ==
    FollowReturned =>
        \A S \in symbols : \A t \in terminals \cup {EOF} :
            t \in Get(follow, S) <=> t \in DerivFollow(rules, S)

\* C5 as amended: follow[S] holds every terminal that can come right after S,
\* and holds exactly those when every rule is reachable from the start symbol.
C5_FollowExactWhenReachable ==
    FollowReturned =>
        \A S \in symbols : \A t \in terminals \cup {EOF} :
            /\ t \in DerivFollow(rules, S) => t \in Get(follow, S)
            /\ AllRulesReachable(rules) =>
                  (t \in Get(follow, S) => t \in DerivFollow(rules, S))

\* Follow has returned on a grammar of reachable rules in which a nonterminal
\* is followed by a terminal that begins the next symbol's derivations.
C5_Witness ==
    /\ FollowReturned
    /\ AllRulesReachable(rules)
    /\ Len(rules) > 1
    /\ \E S \in nonterminals : \E t \in terminals :
          /\ t \in Get(follow, S)
          /\ \A k \in DOMAIN rules : \A i \in 1..(Len(rules[k].pattern) - 1) :
                rules[k].pattern[i] = S => rules[k].pattern[i + 1] # t

DollarWritten(g) == \E k \in DOMAIN g : EOF \in Range(g[k].pattern)

\* C7: after Follow returns, $ is in follow[start]; it is in follow[X] for
\* another symbol X only if $ is written in a pattern or X can end a
\* sentential form derived from start.
C7_DollarInFollow ==
    FollowReturned =>
        /\ EOF \in Get(follow, rules[1].symbol)
        /\ \A X \in symbols \ {rules[1].symbol} :
              EOF \in Get(follow, X) =>
                  \/ DollarWritten(rules)
                  \/ X \in EndClosure(rules, {rules[1].symbol})

\* Follow has returned, $ is not written, one symbol other than start has $
\* in its follow set and another has not.
C7_Witness ==
    /\ FollowReturned
    /\ ~DollarWritten(rules)
    /\ \E X \in symbols \ {rules[1].symbol} : EOF \in Get(follow, X)
    /\ \E Y \in symbols \ {rules[1].symbol} :
          Get(follow, Y) # {} /\ EOF \notin Get(follow, Y)

\* ------------------------------------------------------------------------
\* Claims about ComputeActions and writeTables
\* ------------------------------------------------------------------------

TableReturned == pc \in {"writeTables", "done", "parse", "parsed"}

\* C1: a second run on the same rules ends with the action table and the
\* emitted text of the first run.
C1_SameOutputTwice ==
    (pc = "done" /\ prev # NoPrev) =>
        /\ allActions = prev.table
        /\ out = prev.text

\* C4: at every point of the enumeration and in its result, no two states of
\* the list hold the same items.
C4_NoEqualStates ==
    \A a \in 1..Len(states) : \A b \in 1..Len(states) :
        a # b => states[a] # states[b]

\* The table is returned and a goto led to a state already in the list: a
\* shift whose target is numbered no higher than the state it leaves.
C4_Witness ==
    /\ TableReturned
    /\ Len(states) > 2
    /\ \E a \in 1..Len(allActions) : \E sym \in DOMAIN allActions[a] :
          /\ allActions[a][sym].kind = "Shift"
          /\ allActions[a][sym].state <= a - 1

\* The entry of a row that differs in row2.
Written(row, row2) ==
    CHOOSE t \in DOMAIN row2 : t \notin DOMAIN row \/ row2[t] # row[t]

\* C8, the steps: a diagnostic is written exactly by a step that puts a
\* Reduce into an entry that holds an action; it names the state, the
\* input, the entry replaced and the rule.
C8_DiagStep ==
    IF pc = "reduceItems" /\ allActions' # allActions
    THEN LET row == allActions[idx + 1]
             row2 == allActions'[idx + 1]
             term == Written(row, row2)
         IN  /\ row2[term].kind = "Reduce"
             /\ IF term \in DOMAIN row
                THEN diags' = Append(diags, Diag(idx, term, row[term], row2[term].rule))
                ELSE diags' = diags
    ELSE diags' = diags

\* C8, the result: the table returned has a row per state, a Reduce wherever
\* an end-item and its follow set ask for one, and an entry for every
\* non-empty goto.
C8_CompleteTable ==
    TableReturned =>
        /\ Len(allActions) = Len(states)
        /\ \A a \in 1..Len(states) :
              /\ \A it \in {j \in states[a] : AtEnd(rules, j)} :
                    \A t \in Get(follow, RuleAt(rules, it.rule).symbol) :
                        /\ t \in DOMAIN allActions[a]
                        /\ allActions[a][t].kind = "Reduce"
              /\ \A sym \in symbols :
                    Goto(rules, states[a], sym) # {} => sym \in DOMAIN allActions[a]

\* C8, the scenario s := a | b; a := x; b := x: one diagnostic, for the state
\* reached from state 0 on x, on input $, between the two reduces.
C8_AmbigDiag ==
    (rules = AmbigGrammar /\ TableReturned) =>
        /\ Len(diags) = 1
        /\ allActions[1]["x"].kind = "Shift"
        /\ diags[1].state = allActions[1]["x"].state
        /\ diags[1].term = EOF
        /\ diags[1].old.kind = "Reduce"
        /\ {diags[1].old.rule, diags[1].rule} = {2, 3}

\* C8: conflict diagnostics are written exactly on overwriting an entry with
\* a Reduce, the complete table is returned all the same, and the ambiguous
\* scenario yields the one reduce/reduce diagnostic.
C8_ConflictDiagnostics ==
    /\ [](C8_CompleteTable /\ C8_AmbigDiag)
    /\ [][C8_DiagStep]_vars

\* The ambiguous scenario's table is returned with its diagnostic.
C8_Witness ==
    /\ rules = AmbigGrammar
    /\ pc = "done"
    /\ Len(diags) = 1

ArithInput == <<"digit", "+", "digit", EOF>>

\* C9: the arithmetic grammar yields 6 states, and the parser run on
\* digit + digit $ accepts after reducing num, expr, num, expr.
C9_Arithmetic ==
    rules = ArithGrammar =>
        /\ TableReturned => (Len(states) = 6 /\ Len(allActions) = 6)
        /\ (pc = "parsed" /\ input = ArithInput) =>
              /\ result = "accept"
              /\ reduced = <<"num", "expr", "num", "expr">>

\* The parser has stopped on the arithmetic input.
C9_Witness ==
    /\ rules = ArithGrammar
    /\ pc = "parsed"
    /\ input = ArithInput
    /\ Len(reduced) = 4

ListInput == <<"item", "item", "item", EOF>>

\* C10, the steps: an entry of the table, once written, is not written again.
C10_WrittenOnce ==
    rules = ListGrammar =>
        \A a \in 1..Len(allActions) : \A sym \in DOMAIN allActions[a] :
            /\ a <= Len(allActions')
            /\ sym \in DOMAIN allActions'[a]
            /\ allActions'[a][sym] = allActions[a][sym]

\* C10, the result: no diagnostic at any point, and the parser accepts
\* item item item $.
C10_NoConflictAccepts ==
    rules = ListGrammar =>
        /\ diags = << >>
        /\ (pc = "parsed" /\ input = ListInput) => result = "accept"

\* C10: the left-recursive list grammar gives no conflict diagnostic, writes
\* every table entry at most once, and its table accepts item item item $.
C10_LeftRecursive ==
    /\ []C10_NoConflictAccepts
    /\ [][C10_WrittenOnce]_vars

\* The parser has stopped on item item item $ with the list grammar's table.
C10_Witness ==
    /\ rules = ListGrammar
    /\ pc = "parsed"
    /\ input = ListInput
    /\ Len(reduced) = 3

\* ------------------------------------------------------------------------
\* Claims about the recognizer
\* ------------------------------------------------------------------------

IsPrefix(lit, inp) == Len(lit) <= Len(inp) /\ SubSeq(inp, 1, Len(lit)) = lit

\* The Symbol literals that are a prefix of the input.
Matching ==
    {tokens[k].value : k \in {j \in DOMAIN tokens :
        tokens[j].block = BlockSymbol /\ IsPrefix(tokens[j].value, lexInput)}}

\* The names of the Symbol tokens whose literal is the longest such prefix.
LongestMatch ==
    {tokens[k].name : k \in {j \in DOMAIN tokens :
        /\ tokens[j].block = BlockSymbol
        /\ tokens[j].value \in Matching
        /\ \A lit \in Matching : Len(lit) <= Len(tokens[j].value)}}

\* C3: when some Symbol literal is a prefix of the input, the recognizer
\* returns the token whose literal is the longest such prefix.
C3_LongestMatch ==
    (pc = "lexed" /\ Matching # {}) => lexResult \in LongestMatch

\* ------------------------------------------------------------------------
\* More claims about ComputeActions and writeTables
\* ------------------------------------------------------------------------

\* C11: for the single rule start := t the table returned has exactly two
\* rows: row 0 is Shift(1) on t and nothing else, row 1 is Reduce(rule 0)
\* on $ and nothing else.
C11_SingleRule ==
    (rules = SingleGrammar /\ TableReturned) =>
        /\ Len(states) = 2
        /\ Len(allActions) = 2
        /\ DOMAIN allActions[1] = {"t"}
        /\ allActions[1]["t"] = Shift(1)
        /\ DOMAIN allActions[2] = {EOF}
        /\ allActions[2][EOF] = Reduce(0)

\* The table of the single-rule grammar is returned and written.
C11_Witness ==
    /\ rules = SingleGrammar
    /\ pc = "done"
    /\ Len(allActions) = 2

\* The end-items of an item set.
EndItems(g, set) == {it \in set : AtEnd(g, it)}

\* C15: in the table returned, wherever an end-item of state i and a member t
\* of the follow set of its rule's symbol ask for a Reduce, the entry (i, t)
\* is a Reduce of a rule with an end-item in state i and t in the follow set
\* of its symbol; no Shift written by the enumeration is left there.
C15_ReduceWins ==
    TableReturned =>
        \A a \in 1..Len(states) : \A it \in EndItems(rules, states[a]) :
            \A t \in Get(follow, RuleAt(rules, it.rule).symbol) :
                /\ t \in DOMAIN allActions[a]
                /\ allActions[a][t].kind = "Reduce"
                /\ \E w \in EndItems(rules, states[a]) :
                      /\ allActions[a][t] = Reduce(w.rule)
                      /\ t \in Get(follow, RuleAt(rules, w.rule).symbol)

\* The table is returned after a Reduce replaced a Shift: a shift/reduce
\* conflict was reported.
C15_Witness ==
    /\ TableReturned
    /\ \E d \in DOMAIN diags :
          /\ diags[d].old.kind = "Shift"
          /\ allActions[diags[d].state + 1][diags[d].term].kind = "Reduce"

\* C16: in the table returned every Reduce is keyed by a terminal or by $:
\* no entry under a nonterminal is a Reduce.
C16_ReduceOnTerminals ==
    TableReturned =>
        \A a \in 1..Len(allActions) : \A sym \in DOMAIN allActions[a] :
            allActions[a][sym].kind = "Reduce" => sym \in terminals \cup {EOF}

\* The items (R', 0) asked for by an item of set: R' is a rule whose symbol
\* is right of the item's dot.
Expansions(g, set) ==
    {MkItem(k - 1, 0) : k \in {j \in DOMAIN g :
        \E it \in set : ~AtEnd(g, it) /\ NextSym(g, it) = g[j].symbol}}

\* Whether set holds every item its items ask for.
Closed(g, set) == Expansions(g, set) \subseteq set

\* The least closed superset of set.
RECURSIVE LeastClosure(_, _)
LeastClosure(g, set) ==
    IF Closed(g, set) THEN set ELSE LeastClosure(g, set \cup Expansions(g, set))

\* Goto as defined: the least closure of the items of set with the dot moved
\* over x.
GotoRef(g, set, x) ==
    LeastClosure(g, {MkItem(it.rule, it.pos + 1) :
                        it \in {j \in set : ~AtEnd(g, j) /\ NextSym(g, j) = x}})

\* The enumeration has ended and the reduce loop has not begun.
EnumEnded == pc = "reduce" /\ idx = 0

\* C17: when the enumeration ends, before any Reduce is written, the table
\* has a row per state, states[0] is the closure of {(rule 0, 0)}, and row i
\* has an entry for symbol X exactly when Goto(states[i], X) is not empty,
\* that entry being Shift(j) with states[j] equal to Goto(states[i], X).
C17_EnumerationTable ==
    EnumEnded =>
        /\ Len(allActions) = Len(states)
        /\ states[1] = LeastClosure(rules, {MkItem(0, 0)})
        /\ \A a \in 1..Len(states) :
              /\ DOMAIN allActions[a] \subseteq symbols
              /\ \A X \in symbols :
                    /\ X \in DOMAIN allActions[a] <=> GotoRef(rules, states[a], X) # {}
                    /\ X \in DOMAIN allActions[a] =>
                          /\ allActions[a][X].kind = "Shift"
                          /\ allActions[a][X].state \in 0..(Len(states) - 1)
                          /\ states[allActions[a][X].state + 1]
                                = GotoRef(rules, states[a], X)

\* The enumeration has ended with at least three states, a row of two
\* entries, and a shift back to a state numbered no higher than its source.
C17_Witness ==
    /\ EnumEnded
    /\ Len(states) >= 3
    /\ \E a \in 1..Len(allActions) : Cardinality(DOMAIN allActions[a]) >= 2
    /\ \E a \in 1..Len(allActions) : \E X \in DOMAIN allActions[a] :
          allActions[a][X].state <= a - 1

\* The actions of a table.
ActionsOf(table) ==
    UNION {{table[a][sym] : sym \in DOMAIN table[a]} : a \in 1..Len(table)}

\* C20: in the table returned no Shift has state 0 as its target, and the
\* numbers writeTables emits tell any two different actions apart.
C20_EncodingInjective ==
    TableReturned =>
        /\ \A act \in ActionsOf(allActions) :
              act.kind = "Shift" => act.state # 0
        /\ \A act \in ActionsOf(allActions) : \A other \in ActionsOf(allActions) :
              act # other => Encode(act) # Encode(other)

\* The text is written for a table that holds the Reduce of rule 0, written
\* as 0, a Reduce of another rule and a Shift.
C20_Witness ==
    /\ pc = "done"
    /\ Reduce(0) \in ActionsOf(allActions)
    /\ \E act \in ActionsOf(allActions) : act.kind = "Reduce" /\ act.rule > 0
    /\ \E act \in ActionsOf(allActions) : act.kind = "Shift"
    /\ \E k \in DOMAIN out.actions : \E l \in DOMAIN out.actions[k] :
          out.actions[k][l][2] = 0

\* The Symbol tokens the recognizer can return.
SymbolTokens == {k \in DOMAIN tokens : tokens[k].block = BlockSymbol}

\* The token file with the Symbol tokens = and ==.
EqualsTokens == TokenFile({<<"=">>, <<"=", "=">>})

\* C12: when the recognizer returns a Symbol token, the bytes read are
\* exactly those of its literal, the byte after them being the next one
\* read; with the literals = and ==, input =f gives the token of = with f
\* unread, and input == gives the token of ==.
C12_ConsumesLiteral ==
    pc = "lexed" =>
        /\ lexResult \notin {tNone, tEOF} =>
              \E k \in SymbolTokens :
                  /\ tokens[k].name = lexResult
                  /\ IsPrefix(tokens[k].value, lexInput)
                  /\ lexPos = Len(tokens[k].value)
        /\ (tokens = EqualsTokens /\ lexInput = <<"=", "f">>) =>
              (lexResult = <<"=">> /\ lexPos = 1 /\ NextByte = "f")
        /\ (tokens = EqualsTokens /\ lexInput = <<"=", "=">>) =>
              (lexResult = <<"=", "=">> /\ lexPos = 2)

\* The recognizer of = and == has returned the token of = on input =f.
C12_Witness ==
    /\ pc = "lexed"
    /\ tokens = EqualsTokens
    /\ lexInput = <<"=", "f">>
    /\ lexResult = <<"=">>

\* C19: when the recognizer returns tNone, no byte of the input has been
\* consumed.
C19_NoneConsumesNothing ==
    (pc = "lexed" /\ lexResult = tNone) => lexPos = 0

\* ------------------------------------------------------------------------
\* Claims about ItemSet.Closure
\* ------------------------------------------------------------------------

\* The closed sets of items of g that hold set.
ClosedSupersets(g, set) ==
    {T \in SUBSET AllItems(g) : set \subseteq T /\ Closed(g, T)}

\* C18: Closure turns the set it is called on into its least closed superset,
\* whatever the order in which the range produces the items and whether or
\* not it produces those added meanwhile; called on the set it returned, it
\* returns that set again.
C18_ClosureLeast ==
    pc = "closureDone" =>
        /\ itemSet \in ClosedSupersets(rules, itemSet0)
        /\ \A T \in ClosedSupersets(rules, itemSet0) : itemSet \subseteq T
        /\ itemSet = LeastClosure(rules, itemSet0)
        /\ closed1 # {} => itemSet = closed1

\* A second call has returned on a set to which the first call added both
\* rules of one symbol and a rule found only through an added item.
C18_Witness ==
    /\ pc = "closureDone"
    /\ closed1 # {}
    /\ \E a \in DOMAIN rules : \E b \in DOMAIN rules :
          /\ a # b
          /\ rules[a].symbol = rules[b].symbol
          /\ {MkItem(a - 1, 0), MkItem(b - 1, 0)} \subseteq itemSet \ itemSet0
    /\ itemSet # itemSet0 \cup Expansions(rules, itemSet0)

\* ------------------------------------------------------------------------
\* Claims about parsePattern
\* ------------------------------------------------------------------------

Whitespace == {" ", "\t"}

Letters == {"A"}

\* The tokens of a string: its maximal runs of bytes that are not whitespace.
RECURSIVE Fields(_)
Fields(s) ==
    IF s = << >> THEN << >>
    ELSE IF Head(s) \in Whitespace THEN Fields(Tail(s))
    ELSE LET ends == {k \in 1..Len(s) :
                         /\ \A j \in 1..k : s[j] \notin Whitespace
                         /\ (k = Len(s) \/ s[k + 1] \in Whitespace)}
             k == CHOOSE e \in ends : TRUE
         IN  <<SubSeq(s, 1, k)>> \o Fields(SubSeq(s, k + 1, Len(s)))

\* A token of the shape X=sym: a single letter, the equals sign, and a
\* symbol that is not empty.
HasVarShape(tok) == Len(tok) > 2 /\ tok[1] \in Letters /\ tok[2] = "="

\* C14: parsePattern returns pattern and vars of equal length, one entry for
\* each whitespace-separated token; a token of the shape X=sym, X a single
\* letter, gives vars[i] = X and pattern[i] = sym, and every other token
\* gives an empty vars[i] and pattern[i] the token itself.
C14_ParsePattern ==
    pc = "patternDone" =>
        LET toks == Fields(patternStr)
        IN  /\ Len(pattern) = Len(patVars)
            /\ Len(pattern) = Len(toks)
            /\ \A k \in DOMAIN toks :
                  IF HasVarShape(toks[k])
                  THEN /\ patVars[k] = <<toks[k][1]>>
                       /\ pattern[k] = SubSeq(toks[k], 3, Len(toks[k]))
                  ELSE /\ patVars[k] = << >>
                       /\ pattern[k] = toks[k]

\* ------------------------------------------------------------------------
\* Claims about main
\* ------------------------------------------------------------------------

\* What the run meets in the mode it takes, of the failures listed by C13.
MeetsFailure ==
    \/ env.nargs < 2
    \/ env.mode = "other"
    \/ ~env.openOK
    \/ env.mode = "lr" /\ env.parseOK /\ env.fn.body /\ env.fn.arg = "notLiteral"
    \/ env.mode = "lr" /\ env.parseOK /\ env.fn.body /\ env.fn.arg = "string"
          /\ ~env.fn.results
    \/ env.mode = "lex" /\ env.header = "unknown"
    \/ env.mode = "lex" /\ env.scanErr
    \/ env.fn.body /\ env.fn.arg = "string" /\ env.fn.results /\ ~env.fmtOK
    \/ env.mode = "lex" /\ ~env.fmtOK

\* C13: a run ends either with status 0 and the output written, or with
\* status 1 and a diagnostic on stderr; a run that meets one of the listed
\* failures ends with status 1.
C13_ExitZeroOrOne ==
    pc = "exited" =>
        /\ \/ exitStatus = 0 /\ written
           \/ exitStatus = 1 /\ stderrText # << >> /\ ~written
        /\ MeetsFailure => exitStatus = 1

\* ------------------------------------------------------------------------
\* Claims about termination
\* ------------------------------------------------------------------------

\* The run has ended: the tables are written, or Closure has returned from
\* its second call.
Terminated ==
    \/ pc = "done"
    \/ pc = "closureDone" /\ closed1 # {}

\* Every set of the map m is still in m2 with all its members.
SetsKept(m, m2) ==
    \A s \in DOMAIN m : s \in DOMAIN m2 /\ m[s] \subseteq m2[s]

\* C21, the steps: no first set and no follow set loses a member.
C21_SetsGrow ==
    /\ SetsKept(first, first')
    /\ SetsKept(follow, follow')

\* C21: for every grammar of non-empty patterns, under every iteration order,
\* the First fixpoint, the Follow fixpoint, the enumeration of the states and
\* the reduce loop come to their end, and so does every call of Closure;
\* along the way no first or follow set loses a member.
C21_Terminates ==
    /\ <>Terminated
    /\ [][C21_SetsGrow]_vars

\* ComputeActions has returned and the tables are written for the chain
\* grammar, whose first sets need more than one pass.
C21_Witness ==
    /\ pc = "done"
    /\ rules = ChainGrammar
    /\ Len(states) >= 3
    /\ "t" \in Get(first, "s")

====
